---- MODULE Spec2Model ----
(***************************************************************************)
(* State-machine model of exporter.py: the Plusnet Hub One scraper.        *)
(*                                                                         *)
(* The program is one sequential process.  Its position is pc; an HTTP     *)
(* request, the extraction of one page, the sink write, the handler and    *)
(* the sleep are one step each.  The router and the sink are the           *)
(* environment: every response they can give is drawn with \E.             *)
(* Exceptions are modelled by their Python type, because the type decides  *)
(* which handler (if any) catches them.                                    *)
(***************************************************************************)
EXTENDS Integers, FiniteSets, Sequences, TLC

(***************************************************************************)
(* Bounds of the model.                                                    *)
(***************************************************************************)
\* number of collect_stats frames the interpreter allows before it raises
\* RecursionError (CPython: sys.getrecursionlimit(), 1000 by default)
RecursionLimit == 3
\* a status page served by the router has at most this many defective rows
MaxDefects == 1
\* args.interval ranges over 1..MaxInterval
MaxInterval == 2
\* the measured duration of a cycle ranges over 0..MaxTook
MaxTook == 2

(***************************************************************************)
(* The Stats dataclass and the page rows its fields are scraped from.      *)
(***************************************************************************)
StatsFields ==
    { "total_tx", "total_rx", "firmware_update_datetime", "reboot_datetime",
      "data_rate_tx", "data_rate_rx", "max_data_rate_tx", "max_data_rate_rx",
      "noise_margin_tx", "noise_margin_rx",
      "line_attenuation_tx", "line_attenuation_rx",
      "signal_attenuation_tx", "signal_attenuation_rx" }

\* the labelled rows (and the "wait = N;" script pattern) in the order
\* collect_stats looks them up
RowOrder ==
    << "usage", "firmware", "uptime", "data_rate", "max_data_rate",
       "noise_margin", "line_attenuation", "signal_attenuation" >>

Rows == { RowOrder[i] : i \in 1..Len(RowOrder) }

\* the row each field of Stats is filled from
RowOf(f) ==
    CASE f \in {"total_tx", "total_rx"}                             -> "usage"
      [] f = "firmware_update_datetime"                              -> "firmware"
      [] f = "reboot_datetime"                                       -> "uptime"
      [] f \in {"data_rate_tx", "data_rate_rx"}                      -> "data_rate"
      [] f \in {"max_data_rate_tx", "max_data_rate_rx"}              -> "max_data_rate"
      [] f \in {"noise_margin_tx", "noise_margin_rx"}                -> "noise_margin"
      [] f \in {"line_attenuation_tx", "line_attenuation_rx"}        -> "line_attenuation"
      [] f \in {"signal_attenuation_tx", "signal_attenuation_rx"}    -> "signal_attenuation"

\* a row is present and well formed, absent, or present with an unparsable value
RowStatus == { "ok", "missing", "bad" }

NoPage == [ none |-> TRUE ]
NoStats == { "unassigned" }
NoPoint == { "no point" }

(***************************************************************************)
(* Pages the router can serve.  limit: the "No more than 100 sessions"     *)
(* message; marker: the text "password protected"; form: the auth_key and  *)
(* post_token inputs of the login form; rows: the status table.            *)
(***************************************************************************)
AllMissing == [ r \in Rows |-> "missing" ]

FlagPages ==
    { [ limit |-> l, marker |-> m, form |-> f, rows |-> AllMissing ] :
        l \in BOOLEAN, m \in BOOLEAN, f \in BOOLEAN }

StatusPages ==
    { [ limit |-> FALSE, marker |-> FALSE, form |-> FALSE, rows |-> rs ] :
        rs \in { x \in [ Rows -> RowStatus ] :
                   Cardinality({ r \in Rows : x[r] # "ok" }) <= MaxDefects } }

Pages == FlagPages \cup StatusPages

\* an HTTP exchange: a network failure, or a page that may set the session cookie
Responses ==
    { [ ok |-> FALSE, page |-> NoPage, cookie |-> FALSE ] }
      \cup { [ ok |-> TRUE, page |-> p, cookie |-> c ] : p \in Pages, c \in BOOLEAN }

VARIABLES
    pc,             \* position of the process
    caller,         \* who called login(): "main" or "collect_stats"
    depth,          \* active collect_stats frames
    jar,            \* session.cookies holds rg_cookie_session_id
    interval,       \* args.interval
    login_page,     \* login(): the page its GET returned
    conn_info_page, \* collect_stats(): the page its GET returned
    stats,          \* main(): the local `stats`
    err,            \* type of the exception raised last ("none": none yet in this cycle)
    errAt,          \* the position that raised it
    logged,         \* the exception logging.exception recorded in this cycle
    exitCode,       \* process exit status (-1: running)
    point,          \* fields of the point handed to write_points in this cycle
    logins,         \* login() calls in this cycle (or at startup)
    fetches,        \* status-page GETs issued by collect_stats in this cycle
    posts,          \* login POSTs issued in this cycle (or at startup)
    writes,         \* write_points calls in this cycle
    returned,       \* collect_stats returned a record in this cycle
    firstMarker,    \* the first page collect_stats fetched in this cycle had the marker: "yes", "no" ("none": no page yet)
    took,           \* measured duration of the finished cycle
    sleeps,         \* sleeps since the last cycle finished
    sleptFor,       \* length of the last sleep
    cycled          \* a cycle has started

vars ==
    << pc, caller, depth, jar, interval, login_page, conn_info_page, stats, err,
       errAt, logged, exitCode, point, logins, fetches, posts, writes, returned,
       firstMarker, took, sleeps, sleptFor, cycled >>

Init ==
    /\ pc = "main"
    /\ caller = "main"
    /\ depth = 0
    /\ jar = FALSE
    /\ interval \in 1..MaxInterval
    /\ login_page = NoPage
    /\ conn_info_page = NoPage
    /\ stats = NoStats
    /\ err = "none"
    /\ errAt = "none"
    /\ logged = "none"
    /\ exitCode = -1
    /\ point = NoPoint
    /\ logins = 0
    /\ fetches = 0
    /\ posts = 0
    /\ writes = 0
    /\ returned = FALSE
    /\ firstMarker = "none"
    /\ took = 0
    /\ sleeps = 0
    /\ sleptFor = 0
    /\ cycled = FALSE

(***************************************************************************)
(* Exceptions.  "NetworkError" stands for requests' timeout and connection *)
(* errors, "InfluxError" for whatever write_points raises; both derive     *)
(* from Exception, as do TypeError, KeyError, AttributeError, ValueError   *)
(* and RecursionError.  SystemExit and KeyboardInterrupt derive from       *)
(* BaseException only.                                                     *)
(***************************************************************************)
BaseOnly == { "SystemExit", "KeyboardInterrupt" }

\* variant: a bare `except:` catches every exception
CaughtBare(e) == TRUE

\* variant: `except (Exception, KeyboardInterrupt)`
CaughtAllButExit(e) == e # "SystemExit"

\* variant: `except requests.RequestException`
CaughtNetworkOnly(e) == e = "NetworkError"

\* `except Exception as e` of the loop
Caught(e) == e \notin BaseOnly

\* the position is inside the loop's try block
InTry ==
    \/ pc \in { "collect_get", "extract", "write" }
    \/ pc \in { "login_get", "login_post" } /\ caller = "collect_stats"

\* exit status of a process ended by exception e: sys.exit(0) in the
\* KeyboardInterrupt handler, exit(1) for the session limit, and the
\* interpreter's status 1 for a traceback
ExitStatus(e) == IF e = "KeyboardInterrupt" THEN 0 ELSE 1

\* e is raised at pc: the stack unwinds to the loop's handler when that
\* catches e, and out of main() otherwise
Raise(e) ==
    /\ err' = e
    /\ errAt' = pc
    /\ depth' = 0
    /\ IF InTry /\ Caught(e)
         THEN pc' = "except" /\ exitCode' = exitCode
         ELSE pc' = "exited" /\ exitCode' = ExitStatus(e)

NoRaise == UNCHANGED << err, errAt, exitCode >>

(***************************************************************************)
(* Extraction of one status page.                                          *)
(***************************************************************************)
\* the lookup of row r itself raises: find() gave None, the regex did not
\* match, or (first three rows) the value is converted on the spot
LookupFails(p, r) ==
    \/ p.rows[r] = "missing"
    \/ r \in { "usage", "firmware", "uptime" } /\ p.rows[r] = "bad"

\* variant: the conversions in the Stats(...) call do not raise
ExtractErrorLookupOnly(p) ==
    IF \E i \in 1..Len(RowOrder) : LookupFails(p, RowOrder[i])
      THEN LET i == CHOOSE k \in 1..Len(RowOrder) :
                      /\ LookupFails(p, RowOrder[k])
                      /\ \A j \in 1..(k - 1) : ~LookupFails(p, RowOrder[j])
           IN  IF p.rows[RowOrder[i]] = "missing" THEN "AttributeError" ELSE "ValueError"
      ELSE "none"

\* the exception collect_stats raises on page p, "none" when it returns
\* ("ValueError" also stands for the IndexError of a firmware row without
\* "Last updated ")
ExtractError(p) ==
    IF \E i \in 1..Len(RowOrder) : LookupFails(p, RowOrder[i])
      THEN LET i == CHOOSE k \in 1..Len(RowOrder) :
                      /\ LookupFails(p, RowOrder[k])
                      /\ \A j \in 1..(k - 1) : ~LookupFails(p, RowOrder[j])
           IN  IF p.rows[RowOrder[i]] = "missing" THEN "AttributeError" ELSE "ValueError"
      ELSE IF \E r \in Rows : p.rows[r] = "bad"
             THEN "ValueError"      \* int()/float() in the Stats(...) call
             ELSE "none"

\* the fields of the record that hold a value scraped from the page
StatsOf(p) == { f \in StatsFields : p.rows[RowOf(f)] = "ok" }

\* the interpreter refuses one more collect_stats frame
Overflows(d) == d >= RecursionLimit

\* variant: the sleep is shortened by what the cycle took
SleepLengthDrift == IF interval > took THEN interval - took ELSE 0

\* the argument of time.sleep
SleepLength == interval

(***************************************************************************)
(* Steps of the program.                                                   *)
(***************************************************************************)
\* main() up to the call router.login()
Startup ==
    /\ pc = "main"
    /\ pc' = "login_get"
    /\ caller' = "main"
    /\ logins' = logins + 1
    /\ UNCHANGED << depth, jar, interval, login_page, conn_info_page, stats, err,
                    errAt, logged, exitCode, point, fetches, posts, writes,
                    returned, firstMarker, took, sleeps, sleptFor, cycled >>

\* login(): the GET, the session-limit test and the parse of the login form
LoginGet ==
    /\ pc = "login_get"
    /\ \E r \in Responses :
         IF ~r.ok
           THEN /\ Raise("NetworkError")
                /\ UNCHANGED << jar, login_page >>
           ELSE /\ jar' = (jar \/ r.cookie)
                /\ login_page' = r.page
                /\ IF r.page.limit
                     THEN Raise("SystemExit")
                     ELSE IF ~r.page.form
                            THEN Raise("TypeError")
                            ELSE /\ pc' = "login_post"
                                 /\ NoRaise
                                 /\ UNCHANGED depth
    /\ UNCHANGED << caller, interval, conn_info_page, stats, logged, point, logins,
                    fetches, posts, writes, returned, firstMarker, took, sleeps,
                    sleptFor, cycled >>

\* login(): the POST and the return; returning into collect_stats runs its
\* `return self.collect_stats()`, which pushes one more frame
LoginPost ==
    /\ pc = "login_post"
    /\ posts' = posts + 1
    /\ \E ok \in BOOLEAN, c \in BOOLEAN :
         IF ~ok
           THEN /\ Raise("NetworkError")
                /\ UNCHANGED jar
           ELSE /\ jar' = (jar \/ c)
                /\ IF caller = "main"
                     THEN /\ pc' = "connect"
                          /\ NoRaise
                          /\ UNCHANGED depth
                     ELSE IF Overflows(depth)
                            THEN Raise("RecursionError")
                            ELSE /\ pc' = "collect_get"
                                 /\ depth' = depth + 1
                                 /\ NoRaise
    \* the frame entered next has no page yet
    /\ conn_info_page' = IF pc' = "collect_get" THEN NoPage ELSE conn_info_page
    /\ UNCHANGED << caller, interval, login_page, stats, logged,
                    point, logins, fetches, writes, returned, firstMarker, took,
                    sleeps, sleptFor, cycled >>

\* InfluxDBClient(...) and switch_database: no request is sent
Connect ==
    /\ pc = "connect"
    /\ pc' = "loop"
    /\ UNCHANGED << caller, depth, jar, interval, login_page, conn_info_page, stats,
                    err, errAt, logged, exitCode, point, logins, fetches, posts,
                    writes, returned, firstMarker, took, sleeps, sleptFor, cycled >>

\* top of `while True`: a cycle starts with the call router.collect_stats()
CycleStart ==
    /\ pc = "loop"
    /\ pc' = "collect_get"
    /\ depth' = 1
    /\ cycled' = TRUE
    /\ err' = "none"
    /\ errAt' = "none"
    /\ logged' = "none"
    /\ point' = NoPoint
    /\ logins' = 0
    /\ fetches' = 0
    /\ posts' = 0
    /\ writes' = 0
    /\ returned' = FALSE
    /\ firstMarker' = "none"
    /\ took' = 0
    /\ login_page' = NoPage
    /\ conn_info_page' = NoPage
    /\ UNCHANGED << caller, jar, interval, stats, exitCode, sleeps, sleptFor >>

\* collect_stats(): the GET, the cookie lookup and the marker test
CollectGet ==
    /\ pc = "collect_get"
    /\ fetches' = fetches + 1
    /\ \E r \in Responses :
         IF ~r.ok
           THEN /\ Raise("NetworkError")
                /\ UNCHANGED << jar, conn_info_page, firstMarker, caller, logins,
                                login_page >>
           ELSE /\ jar' = (jar \/ r.cookie)
                /\ conn_info_page' = r.page
                /\ firstMarker' = IF firstMarker # "none" THEN firstMarker
                                  ELSE IF r.page.marker THEN "yes" ELSE "no"
                /\ IF ~jar'
                     THEN /\ Raise("KeyError")
                          /\ UNCHANGED << caller, logins, login_page >>
                     ELSE IF r.page.marker
                            THEN /\ pc' = "login_get"
                                 /\ caller' = "collect_stats"
                                 /\ logins' = logins + 1
                                 /\ login_page' = NoPage
                                 /\ NoRaise
                                 /\ UNCHANGED depth
                            ELSE /\ pc' = "extract"
                                 /\ NoRaise
                                 /\ UNCHANGED << depth, caller, logins, login_page >>
    /\ UNCHANGED << interval, stats, logged, point, posts, writes, returned, took,
                    sleeps, sleptFor, cycled >>

\* collect_stats(): the row lookups and the Stats(...) call, then the return
\* through every frame to main()
Extract ==
    /\ pc = "extract"
    /\ IF ExtractError(conn_info_page) = "none"
         THEN /\ stats' = StatsOf(conn_info_page)
              /\ returned' = TRUE
              /\ depth' = 0
              /\ pc' = "write"
              /\ NoRaise
         ELSE /\ Raise(ExtractError(conn_info_page))
              /\ UNCHANGED << stats, returned >>
    /\ UNCHANGED << caller, jar, interval, login_page, conn_info_page, logged,
                    point, logins, fetches, posts, writes, firstMarker, took,
                    sleeps, sleptFor, cycled >>

\* variant: a failed write is tried once more
WriteRetry ==
    /\ pc = "write"
    /\ writes < 2
    /\ writes' = writes + 1
    /\ point' = stats
    /\ \E ok \in BOOLEAN :
         IF ok THEN pc' = "took" ELSE pc' = "write"
    /\ UNCHANGED << caller, depth, jar, interval, login_page, conn_info_page, stats,
                    err, errAt, logged, exitCode, logins, fetches, posts, returned,
                    firstMarker, took, sleeps, sleptFor, cycled >>

\* client.write_points([...asdict(stats)...])
Write ==
    /\ pc = "write"
    /\ writes' = writes + 1
    /\ point' = stats
    /\ \E ok \in BOOLEAN :
         IF ok
           THEN /\ pc' = "took"
                /\ NoRaise
                /\ UNCHANGED depth
           ELSE Raise("InfluxError")
    /\ UNCHANGED << caller, jar, interval, login_page, conn_info_page, stats, logged,
                    logins, fetches, posts, returned, firstMarker, took, sleeps,
                    sleptFor, cycled >>

\* variant: the handler goes straight back to the top of the loop
ExceptRetry ==
    /\ pc = "except"
    /\ logged' = err
    /\ pc' = "loop"
    /\ UNCHANGED << caller, depth, jar, interval, login_page, conn_info_page, stats,
                    err, errAt, exitCode, point, logins, fetches, posts, writes,
                    returned, firstMarker, took, sleeps, sleptFor, cycled >>

\* the handler: logging.exception(e)
Except ==
    /\ pc = "except"
    /\ logged' = err
    /\ pc' = "took"
    /\ UNCHANGED << caller, depth, jar, interval, login_page, conn_info_page, stats,
                    err, errAt, exitCode, point, logins, fetches, posts, writes,
                    returned, firstMarker, took, sleeps, sleptFor, cycled >>

\* logging.info("took ... seconds"): the cycle is over
LogTook ==
    /\ pc = "took"
    /\ \E t \in 0..MaxTook : took' = t
    /\ sleeps' = 0
    /\ sleptFor' = 0
    /\ pc' = "sleep"
    /\ UNCHANGED << caller, depth, jar, interval, login_page, conn_info_page, stats,
                    err, errAt, logged, exitCode, point, logins, fetches, posts,
                    writes, returned, firstMarker, cycled >>

\* time.sleep(args.interval), then back to the top of the loop
Sleep ==
    /\ pc = "sleep"
    /\ sleptFor' = SleepLength
    /\ sleeps' = sleeps + 1
    /\ pc' = "loop"
    /\ UNCHANGED << caller, depth, jar, interval, login_page, conn_info_page, stats,
                    err, errAt, logged, exitCode, point, logins, fetches, posts,
                    writes, returned, firstMarker, took, cycled >>

\* the user's interrupt: KeyboardInterrupt is raised wherever the process is
Interrupt ==
    /\ pc # "exited"
    /\ Raise("KeyboardInterrupt")
    /\ UNCHANGED << caller, jar, interval, login_page, conn_info_page, stats, logged,
                    point, logins, fetches, posts, writes, returned, firstMarker,
                    took, sleeps, sleptFor, cycled >>

\* every step the program takes by itself
Step ==
    \/ Startup
    \/ LoginGet
    \/ LoginPost
    \/ Connect
    \/ CycleStart
    \/ CollectGet
    \/ Extract
    \/ Write
    \/ Except
    \/ LogTook
    \/ Sleep

Next == Step \/ Interrupt

Spec == Init /\ [][Next]_vars

\* the interpreter keeps running the process: a step that can be taken is
\* taken; nothing forces the user to interrupt
FairSpec == Spec /\ WF_vars(Step)

(***************************************************************************)
(* Properties.                                                             *)
(***************************************************************************)
\* positions of a collection cycle, from the call of collect_stats to the
\* "took" log line
InCycle ==
    /\ cycled
    /\ pc \in { "collect_get", "login_get", "login_post", "extract", "write",
                "except", "took" }

\* this step starts a cycle
StartsCycle == pc # "collect_get" /\ pc' = "collect_get" /\ depth' = 1

\* C1: a point is handed to write_points only when collect_stats returned a
\* record with all 14 fields set, scraped from a page on which every lookup and
\* conversion succeeded; a cycle whose extraction raised writes nothing.
C1_OnlyCompleteRecordsWritten ==
    /\ (writes = 0) <=> (point = NoPoint)
    /\ writes > 0 =>
         /\ returned
         /\ point = StatsFields
         /\ Cardinality(point) = 14
         /\ conn_info_page # NoPage
         /\ \A r \in Rows : conn_info_page.rows[r] = "ok"
    /\ (cycled /\ errAt = "extract" /\ err # "KeyboardInterrupt") =>
         /\ writes = 0
         /\ ~returned

\* a cycle whose page had an unparsable noise margin reached its sleep and
\* wrote nothing
C1_Witness ==
    /\ pc = "sleep"
    /\ errAt = "extract"
    /\ err = "ValueError"
    /\ conn_info_page # NoPage
    /\ conn_info_page.rows["noise_margin"] = "bad"
    /\ point = NoPoint

\* C2: a cycle issues at most one login() call and at most two status-page
\* fetches, and a cycle whose first page has no marker issues no login() call.
C2_AtMostOneRelogin ==
    cycled =>
      /\ logins <= 1
      /\ fetches <= 2
      /\ (firstMarker = "no" => logins = 0)

\* C3: when login() receives a page with the session-limit message, at
\* startup or as a re-login inside a cycle, the process ends with exit status
\* 1 in that step: no POST is sent, the loop's handler is not entered, no
\* point is written, and an exited process takes no further step.
C3_SessionLimitExits ==
    [][ /\ (pc = "login_get" /\ login_page' # NoPage /\ login_page'.limit) =>
             /\ pc' = "exited"
             /\ exitCode' = 1
             /\ err' = "SystemExit"
             /\ posts' = posts
             /\ writes' = writes
             /\ point' = point
        /\ pc # "exited" ]_vars

\* the session limit met by a re-login inside a cycle ended the process
C3_Witness ==
    /\ pc = "exited"
    /\ err = "SystemExit"
    /\ caller = "collect_stats"
    /\ cycled
    /\ exitCode = 1
    /\ login_page # NoPage
    /\ login_page.limit

\* C4: an exception other than SystemExit and KeyboardInterrupt raised inside
\* a cycle enters the loop's handler and leaves the process running; the
\* handler logs it, and the cycle goes on to the "took" line, the sleep of
\* args.interval and the next cycle (unless the user interrupts).
C4_CycleErrorsCaught ==
    [][ /\ (InTry /\ err = "none" /\ err' \notin { "none", "SystemExit", "KeyboardInterrupt" }) =>
             /\ pc' = "except"
             /\ exitCode' = -1
        /\ (pc = "except" /\ err' # "KeyboardInterrupt") =>
             /\ pc' = "took"
             /\ logged' = err
             /\ exitCode' = -1
        /\ (pc = "took" /\ err' # "KeyboardInterrupt") => pc' = "sleep"
        /\ (pc = "sleep" /\ err' # "KeyboardInterrupt") =>
             /\ pc' = "loop"
             /\ sleptFor' = interval
        /\ (pc = "loop" /\ err' # "KeyboardInterrupt") => StartsCycle ]_vars

\* a failed sink write was logged and the process is at its sleep
C4_Witness ==
    /\ pc = "sleep"
    /\ err = "InfluxError"
    /\ logged = "InfluxError"
    /\ exitCode = -1

\* C5: the process ends only by a user interrupt or the session limit.
C5_OnlyInterruptOrSessionLimitEnds ==
    pc = "exited" => err \in { "KeyboardInterrupt", "SystemExit" }

\* C6: a KeyboardInterrupt raised anywhere ends the process in that step with
\* exit status 0: the handler is not entered, no write is issued by or after
\* that step, and no cycle starts.
C6_InterruptExitsZero ==
    [][ /\ (err # "KeyboardInterrupt" /\ err' = "KeyboardInterrupt") =>
             /\ pc' = "exited"
             /\ exitCode' = 0
             /\ writes' = writes
             /\ point' = point
        /\ err = "KeyboardInterrupt" => FALSE ]_vars

\* an interrupt that arrived at the sink write of a cycle
C6_Witness ==
    /\ pc = "exited"
    /\ err = "KeyboardInterrupt"
    /\ errAt = "write"
    /\ exitCode = 0
    /\ writes = 0

\* C7: collect_stats never raises at its fetch when the page it fetched has
\* the marker, whatever the cookie jar holds.
C7_MarkerNeverFails ==
    ~ /\ errAt = "collect_get"
      /\ err \notin { "none", "KeyboardInterrupt" }
      /\ conn_info_page # NoPage
      /\ conn_info_page.marker

\* C8: write_points is called at most once per cycle, only after collect_stats
\* has returned to main(), and every cycle that got a record and reached its
\* end has called it exactly once; a cycle starts with nothing of the
\* previous one pending.
C8_OneWritePerCycle ==
    /\ writes <= 1
    /\ writes = 1 =>
         /\ returned
         /\ depth = 0
         /\ pc \in { "except", "took", "sleep", "loop", "exited" }
    /\ (cycled /\ pc \in { "except", "took", "sleep", "loop" }) =>
         (writes = 1 <=> returned)
    /\ (pc = "collect_get" /\ depth = 1 /\ fetches = 0 /\ err = "none") =>
         /\ writes = 0
         /\ ~returned
         /\ point = NoPoint

\* a cycle that got a record wrote it and is at its sleep
C8_Witness ==
    /\ pc = "sleep"
    /\ returned
    /\ writes = 1
    /\ point = StatsFields
    /\ err = "none"

\* C9: a finished cycle, failed or not, goes to exactly one sleep of
\* args.interval, whatever the cycle took; a cycle other than the first
\* starts only from the top of the loop after that sleep; the handler does
\* not restart the cycle.
C9_FixedSleepBetweenCycles ==
    [][ /\ (pc = "sleep" /\ pc' # "exited") =>
             /\ pc' = "loop"
             /\ sleeps' = 1
             /\ sleptFor' = interval
        /\ StartsCycle =>
             /\ pc = "loop"
             /\ cycled => (sleeps = 1 /\ sleptFor = interval)
        /\ (pc = "except" /\ pc' # "exited") => pc' = "took"
        /\ (pc = "took" /\ pc' # "exited") => (pc' = "sleep" /\ sleeps' = 0) ]_vars

\* a failed cycle that took at least the interval was followed by a full sleep
C9_Witness ==
    /\ pc = "loop"
    /\ cycled
    /\ logged # "none"
    /\ took >= interval
    /\ sleeps = 1
    /\ sleptFor = interval

====
